---------------------------- MODULE Spec2Model ----------------------------
(***************************************************************************)
(* Double-entry ledger of rachel-rigdg/ClaudeAcct.                         *)
(*                                                                         *)
(* The engine (src/acct/accounting_system.py, class AccountingSystem) and  *)
(* the request handlers that write to the same SQLite store                *)
(* (src/acct/accounting_web_ui.py) are modelled as a state machine over    *)
(* the tables accounts, transactions, transaction_entries and ofx_imports. *)
(*                                                                         *)
(* Money.  Callers hand amounts over as decimal.Decimal; the store keeps   *)
(* them in REAL columns, written with float(...).  A Decimal input is an   *)
(* integer number of tenths (3 is Decimal('0.3')).  A stored REAL is the   *)
(* IEEE-754 binary64 value it really is, written <<t, e>>:                 *)
(*       value = t/10 + e * U,      U = 1 / (10 * 2^56)                    *)
(* so <<3, -8>> is the double 0.299999999999999988897769753748 = float of  *)
(* Decimal('0.3').  Sums of such pairs are exact; float addition rounds    *)
(* them back to the binary64 grid (round half to even).                    *)
(*                                                                         *)
(* Free text that only passes through (account description, transaction    *)
(* description and reference, entry description, payee and memo) is left   *)
(* out of the rows.                                                        *)
(***************************************************************************)
EXTENDS Integers, Sequences, FiniteSets, TLC

(***************************************************************************)
(* Bounds of the model.                                                    *)
(***************************************************************************)
\* most rows the transactions table holds (guard of every insert into it)
MaxTxns == 1
\* most rows the ofx_imports table holds (guard of the import action)
MaxImports == 1

\* transaction dates, as day numbers (1 is 2024-01-01, 2 is 2024-01-02)
Dates == {1, 2}

(***************************************************************************)
(* binary64 arithmetic on <<t, e>> pairs                                   *)
(***************************************************************************)
\* 2^n, tabulated once for the exponents in use
RECURSIVE Pow2Rec(_)
Pow2Rec(n) == IF n <= 0 THEN 1 ELSE 2 * Pow2Rec(n - 1)
Pow2Table == [n \in 0 .. 12 |-> Pow2Rec(n)]
Pow2(n) == Pow2Table[n]

\* 2^n mod 10 for n >= 1 (the cycle 2, 4, 8, 6)
Pow2Mod10(n) == CASE n % 4 = 1 -> 2
                  [] n % 4 = 2 -> 4
                  [] n % 4 = 3 -> 8
                  [] OTHER     -> 6

\* exponents of the binades the model's amounts fall in: 2^-4 <= v < 2^7
Exponents == (0 - 4) .. 6

\* 2^j <= t/10 + e*U < 2^(j+1), for t >= 1 (both sides scaled by 160)
InBinade(t, e, j) ==
    /\ \/ 16 * t > 10 * Pow2(j + 4)
       \/ (16 * t = 10 * Pow2(j + 4) /\ e >= 0)
    /\ \/ 16 * t < 10 * Pow2(j + 5)
       \/ (16 * t = 10 * Pow2(j + 5) /\ e < 0)

\* The binary64 nearest to the real t/10 + e*U, t >= 1, ties to even.  In
\* binade j the doubles are S = 10 * 2^(j+4) units U apart, and t/10 is
\* t * 2^56 units, which is 2^(j+5) * ((t * 2^(51-j)) mod 10)  modulo 2S.
RoundPos(t, e) ==
    LET j    == CHOOSE k \in Exponents : InBinade(t, e, k)
        S    == 10 * Pow2(j + 4)
        base == Pow2(j + 5) * ((t * Pow2Mod10(51 - j)) % 10)
        r2   == (base + e) % (2 * S)
        r    == r2 % S
        odd  == r2 >= S
        down == e - r
        up   == e - r + S
    IN  IF 2 * r < S THEN <<t, down>>
        ELSE IF 2 * r > S THEN <<t, up>>
        ELSE IF odd THEN <<t, up>> ELSE <<t, down>>

\* Rounding of an exact value to binary64.  With t = 0 the value is a
\* difference of two doubles of one binade, which is a double (Sterbenz).
Round(t, e) ==
    IF t = 0 THEN <<0, e>>
    ELSE IF t > 0 THEN RoundPos(t, e)
    ELSE LET p == RoundPos(0 - t, 0 - e) IN <<0 - p[1], 0 - p[2]>>

\* float(Decimal): accounting_system.py:386, accounting_web_ui.py:493
\* (tabulated once over the Decimal inputs of the model)
Tenths == (0 - 40) .. 40
FloatOfDecimal == [t \in Tenths |-> Round(t, 0)]
ToFloat(t) == FloatOfDecimal[t]

\* x + y and x - y on REAL values, as SQLite computes them
FloatAdd(x, y) == Round(x[1] + y[1], x[2] + y[2])
FloatSub(x, y) == Round(x[1] - y[1], x[2] - y[2])

\* Decimal(str(x)): str gives the shortest decimal that reads back as x, which
\* is t/10 itself exactly when x is the double nearest t/10; any other double
\* prints 17 significant digits, a decimal off t/10 on the side x is (its
\* offset is kept as e).
DecimalOfStr(x) == IF x = ToFloat(x[1]) THEN <<x[1], 0>> ELSE x

\* exact arithmetic (decimal.Decimal, and the reals the claims speak of)
Zero == <<0, 0>>
Plus(x, y) == <<x[1] + y[1], x[2] + y[2]>>
Minus(x, y) == <<x[1] - y[1], x[2] - y[2]>>
Neg(x) == <<0 - x[1], 0 - x[2]>>
IsPos(x) == x[1] > 0 \/ (x[1] = 0 /\ x[2] > 0)
IsNeg(x) == x[1] < 0 \/ (x[1] = 0 /\ x[2] < 0)
Abs(x) == IF IsNeg(x) THEN Neg(x) ELSE x

(***************************************************************************)
(* The store                                                               *)
(***************************************************************************)
AccountTypes == {"ASSET", "LIABILITY", "EQUITY", "REVENUE", "EXPENSE"}

\* The rows of standard_accounts the operations below name: the default cash
\* account and the two offset accounts of the import.  parent_id "" is NULL.
standard_accounts ==
    << [id |-> "1110", name |-> "Cash and Bank Accounts",
        account_type |-> "ASSET", parent_id |-> "1100"],
       [id |-> "4300", name |-> "Other Income",
        account_type |-> "REVENUE", parent_id |-> "4000"],
       [id |-> "5240", name |-> "Office Supplies",
        account_type |-> "EXPENSE", parent_id |-> "5200"] >>

\* account ids a caller may name; "6000" is not in the seed chart
AccountIds == {"1110", "4300", "5240", "6000"}

\* ORDER BY id over AccountIds
AccountOrder == <<"1110", "4300", "5240", "6000">>

\* Transaction ids are <<kind, date, number>>:
\*   <<"TXN", d, n>>    f"TXN-{date_str}-{count:03d}"
\*   <<"OFX", 0, f>>    f"OFX_{fitid}"
FitIds == {1, 2}
GeneratedIds == {<<"TXN", d, n>> : d \in Dates, n \in 1 .. (MaxTxns + 1)}
ImportIds == {<<"OFX", 0, f>> : f \in FitIds}
TxnIds == GeneratedIds \cup ImportIds
\* the ids a caller types in (CLI menu choice "2", a request URL): one of each
\* form
CallerIds == {<<"TXN", 1, 1>>, <<"OFX", 0, 1>>}

\* Entry tuples (account_id, debit, credit) a caller posts, amounts in tenths
\*   balanced:   no entry at all; 0.3 expense paid from cash;
\*               0.1 + 0.2 of cash against 0.3 of income
\*   unbalanced: debit 0.1 against credit 0.3
EntryLists ==
    { <<>>,
      << <<"5240", 3, 0>>, <<"1110", 0, 3>> >>,
      << <<"1110", 1, 0>>, <<"1110", 2, 0>>, <<"4300", 0, 3>> >>,
      << <<"1110", 1, 0>>, <<"4300", 0, 3>> >> }

\* The same, and a balanced list of negative amounts: debit -0.3 against
\* credit -0.3 (a direct caller passes whatever Decimal it reads)
SignedEntryLists ==
    EntryLists \cup
    { << <<"5240", 0 - 3, 0>>, <<"1110", 0, 0 - 3>> >> }

\* Form rows of the web handlers: the same, and a form with a row the
\* handlers drop (no account chosen)
FormLists ==
    EntryLists \cup
    { << <<"", 3, 0>>, <<"5240", 3, 0>>, <<"1110", 0, 3>> >> }

\* Statement documents.  A record is the text of its FITID, DTPOSTED and
\* TRNAMT tags: BadText in date is text strptime rejects, BadText in amount is
\* text Decimal rejects, other amounts are tenths.  acct says whether the
\* document has a BANKACCTFROM block.
BadText == 0 - 99
Statements ==
    { [acct |-> TRUE,  records |-> << [fitid |-> 1, date |-> 1, amount |-> 3] >>],
      [acct |-> TRUE,  records |-> << [fitid |-> 1, date |-> 2, amount |-> 0 - 3] >>],
      [acct |-> TRUE,  records |-> << [fitid |-> 1, date |-> BadText, amount |-> 3],
                                      [fitid |-> 1, date |-> 1, amount |-> 0] >>],
      [acct |-> TRUE,  records |-> << [fitid |-> 1, date |-> 1, amount |-> 0 - 3],
                                      [fitid |-> 2, date |-> 2, amount |-> 1] >>],
      [acct |-> TRUE,  records |-> << [fitid |-> 2, date |-> 2, amount |-> BadText] >>],
      [acct |-> FALSE, records |-> << [fitid |-> 2, date |-> 1, amount |-> 3] >>] }

\* the cash_account_id of an import: the default cash account, or an id that
\* is not in the chart
CashAccounts == {"1110", "6000"}

NoMsg == <<"", 0, 0>>
NoId == <<"", 0, 0>>

\* concurrent requests, each on a connection of its own (SpecConcurrent)
Callers == {"c1", "c2"}

VARIABLES
    accounts,             \* table accounts: id -> row
    transactions,         \* table transactions: id -> row
    transaction_entries,  \* table transaction_entries: rows in rowid order
    ofx_imports,          \* table ofx_imports: number of rows
    ret,                  \* what the latest call returned, printed or flashed
    callers               \* the requests in flight: caller -> locals

vars == <<accounts, transactions, transaction_entries, ofx_imports, ret, callers>>

\* SELECT ... FROM transaction_entries WHERE ..., in rowid order
EntryIds(E) == {E[k].id : k \in DOMAIN E}
EntriesOf(E, tid) == SelectSeq(E, LAMBDA r : r.transaction_id = tid)
EntriesNotOf(E, tid) == SelectSeq(E, LAMBDA r : r.transaction_id # tid)

\* sum(entry[1] for entry in entries), sum(entry[2] ...): exact Decimal sums
RECURSIVE SumField(_, _)
SumField(es, f) == IF es = <<>> THEN 0 ELSE Head(es)[f] + SumField(Tail(es), f)

\* the rows create_transaction and edit_transaction insert for entries es
EntryRows(tid, es) ==
    [i \in 1 .. Len(es) |->
        [id |-> <<tid, i>>, transaction_id |-> tid, account_id |-> es[i][1],
         debit_amount |-> ToFloat(es[i][2]),
         credit_amount |-> ToFloat(es[i][3])]]

(***************************************************************************)
(* AccountingSystem.setup_chart_of_accounts, create_account                *)
(***************************************************************************)
\* Variant with INSERT OR REPLACE: an existing row is overwritten.  C13 fails
\* for it.
create_account_replace(A, id, name, account_type, parent_id) ==
    [ok |-> TRUE,
     A |-> [a \in DOMAIN A \cup {id} |->
              IF a = id
              THEN [name |-> name, account_type |-> account_type,
                    parent_id |-> parent_id, is_active |-> TRUE]
              ELSE A[a]]]

\* INSERT OR IGNORE INTO accounts; is_active defaults to 1
create_account(A, id, name, account_type, parent_id) ==
    IF id \in DOMAIN A
    THEN [ok |-> FALSE, A |-> A]
    ELSE [ok |-> TRUE,
          A |-> A @@ (id :> [name |-> name, account_type |-> account_type,
                             parent_id |-> parent_id, is_active |-> TRUE])]

\* Variant that writes every seed row whether or not its id is there.  C14
\* fails for it.
RECURSIVE SeedFrom_overwrite(_, _)
SeedFrom_overwrite(A, rows) ==
    IF rows = <<>> THEN A
    ELSE LET r == Head(rows)
         IN SeedFrom_overwrite(
               [a \in DOMAIN A \cup {r.id} |->
                  IF a = r.id
                  THEN [name |-> r.name, account_type |-> r.account_type,
                        parent_id |-> r.parent_id, is_active |-> TRUE]
                  ELSE A[a]], Tail(rows))

RECURSIVE SeedFrom(_, _)
SeedFrom(A, rows) ==
    IF rows = <<>> THEN A
    ELSE LET r == Head(rows)
         IN SeedFrom(create_account(A, r.id, r.name, r.account_type,
                                    r.parent_id).A, Tail(rows))

setup_chart_of_accounts(A) == SeedFrom(A, standard_accounts)

\* accounting_web_ui.get_accounting_system: every request opens the database
\* with AccountingSystem(), whose __init__ runs setup_chart_of_accounts
get_accounting_system(A) == setup_chart_of_accounts(A)

(***************************************************************************)
(* AccountingSystem.generate_transaction_id                                *)
(***************************************************************************)
\* SELECT COUNT(*) FROM transactions WHERE date = ?
CountOnDate(T, d) == Cardinality({id \in DOMAIN T : T[id].date = d})

\* while True: SELECT id FROM transactions WHERE id = ?; count += 1
RECURSIVE FirstFreeSeq(_, _, _)
FirstFreeSeq(T, d, count) ==
    IF <<"TXN", d, count>> \in DOMAIN T
    THEN FirstFreeSeq(T, d, count + 1)
    ELSE count

\* Variant without the while loop: the candidate count + 1 is returned as it
\* is.  C6 fails for it.
generate_transaction_id_count_only(T, d) ==
    <<"TXN", d, CountOnDate(T, d) + 1>>

generate_transaction_id(T, d) ==
    <<"TXN", d, FirstFreeSeq(T, d, CountOnDate(T, d) + 1)>>

(***************************************************************************)
(* AccountingSystem.create_transaction                                     *)
(***************************************************************************)
\* Variant whose INSERTs are INSERT OR REPLACE: a row with the same primary
\* key is overwritten.  C12 fails for it.
create_transaction_replace(T, E, tid, d, es) ==
    IF SumField(es, 2) # SumField(es, 3)
    THEN [ok |-> FALSE, T |-> T, E |-> E,
          msg |-> <<"Transaction not balanced", SumField(es, 2), SumField(es, 3)>>]
    ELSE [ok |-> TRUE,
          T |-> [id \in DOMAIN T \cup {tid} |-> IF id = tid THEN [date |-> d] ELSE T[id]],
          E |-> SelectSeq(E, LAMBDA r : \A i \in 1 .. Len(es) : r.id # <<tid, i>>)
                   \o EntryRows(tid, es),
          msg |-> NoMsg]

\* Variant that numbers the entries from 0 (entry id "{transaction_id}_{i}").
\* C24 fails for it.
create_transaction_zero_based(T, E, tid, d, es) ==
    IF SumField(es, 2) # SumField(es, 3)
    THEN [ok |-> FALSE, T |-> T, E |-> E,
          msg |-> <<"Transaction not balanced", SumField(es, 2), SumField(es, 3)>>]
    ELSE IF tid \in DOMAIN T
    THEN [ok |-> FALSE, T |-> T, E |-> E,
          msg |-> <<"UNIQUE constraint failed: transactions.id", 0, 0>>]
    ELSE IF \E i \in 1 .. Len(es) : <<tid, i - 1>> \in EntryIds(E)
    THEN [ok |-> FALSE, T |-> T, E |-> E,
          msg |-> <<"UNIQUE constraint failed: transaction_entries.id", 0, 0>>]
    ELSE [ok |-> TRUE, T |-> T @@ (tid :> [date |-> d]),
          E |-> E \o [i \in 1 .. Len(es) |->
                        [id |-> <<tid, i - 1>>, transaction_id |-> tid,
                         account_id |-> es[i][1],
                         debit_amount |-> ToFloat(es[i][2]),
                         credit_amount |-> ToFloat(es[i][3])]],
          msg |-> NoMsg]

\* Variant without the balance check of lines 362-366.  C4 fails for it.
create_transaction_unchecked(T, E, tid, d, es) ==
    IF tid \in DOMAIN T
    THEN [ok |-> FALSE, T |-> T, E |-> E,
          msg |-> <<"UNIQUE constraint failed: transactions.id", 0, 0>>]
    ELSE IF \E i \in 1 .. Len(es) : <<tid, i>> \in EntryIds(E)
    THEN [ok |-> FALSE, T |-> T, E |-> E,
          msg |-> <<"UNIQUE constraint failed: transaction_entries.id", 0, 0>>]
    ELSE [ok |-> TRUE, T |-> T @@ (tid :> [date |-> d]),
          E |-> E \o EntryRows(tid, es), msg |-> NoMsg]

\* Result of the call on tables T (transactions) and E (transaction_entries):
\* the balance check on the Decimal inputs, the two INSERTs with their
\* PRIMARY KEY checks, commit; on ValueError / sqlite3.Error the rollback
\* leaves both tables as they were.
create_transaction(T, E, tid, d, es) ==
    IF SumField(es, 2) # SumField(es, 3)
    THEN [ok |-> FALSE, T |-> T, E |-> E,
          msg |-> <<"Transaction not balanced", SumField(es, 2), SumField(es, 3)>>]
    ELSE IF tid \in DOMAIN T
    THEN [ok |-> FALSE, T |-> T, E |-> E,
          msg |-> <<"UNIQUE constraint failed: transactions.id", 0, 0>>]
    ELSE IF \E i \in 1 .. Len(es) : <<tid, i>> \in EntryIds(E)
    THEN [ok |-> FALSE, T |-> T, E |-> E,
          msg |-> <<"UNIQUE constraint failed: transaction_entries.id", 0, 0>>]
    ELSE [ok |-> TRUE, T |-> T @@ (tid :> [date |-> d]),
          E |-> E \o EntryRows(tid, es), msg |-> NoMsg]

\* transaction ids with a row in either table
IdsInStore(T, E) == DOMAIN T \cup {E[k].transaction_id : k \in DOMAIN E}
WithinBounds(T, E) == Cardinality(IdsInStore(T, E)) <= MaxTxns

\* A direct call: CLI menu choice "2", add_sample_data.py
CallCreateTransaction(tid, d, es) ==
    \E r \in {create_transaction(transactions, transaction_entries, tid, d, es)} :
       /\ WithinBounds(r.T, r.E)
       /\ transactions' = r.T
       /\ transaction_entries' = r.E
       /\ ret' = [op |-> "create_transaction", val |-> r.ok, msg |-> r.msg,
                  id |-> NoId]
       /\ UNCHANGED <<accounts, ofx_imports, callers>>

\* A direct call of generate_transaction_id (a read)
CallGenerateTransactionId(d) ==
    /\ ret' = [op |-> "generate_transaction_id",
               val |-> generate_transaction_id(transactions, d),
               msg |-> NoMsg, id |-> NoId]
    /\ UNCHANGED <<accounts, transactions, transaction_entries, ofx_imports, callers>>

(***************************************************************************)
(* accounting_web_ui.py: new_transaction, edit_transaction,                *)
(* delete_transaction                                                      *)
(***************************************************************************)
\* if account_id and (debit > 0 or credit > 0): entries.append(...)
FormEntries(rows) ==
    SelectSeq(rows, LAMBDA e : e[1] # "" /\ (e[2] > 0 \/ e[3] > 0))

new_transaction(d, rows) ==
    \E tid \in {generate_transaction_id(transactions, d)} :
    \E r \in {create_transaction(transactions, transaction_entries, tid, d,
                                  FormEntries(rows))} :
       /\ WithinBounds(r.T, r.E)
       /\ transactions' = r.T
       /\ transaction_entries' = r.E
       /\ ret' = [op |-> "new_transaction", val |-> r.ok, msg |-> r.msg,
                  id |-> IF r.ok THEN tid ELSE NoId]
       /\ accounts' = get_accounting_system(accounts)
       /\ UNCHANGED <<ofx_imports, callers>>

\* Variant that validates after the DELETE of the old entries and commits
\* what it has done when it refuses.  C5 fails for it.
EditResult_delete_first(T, E, tid, d, rows) ==
    LET es == FormEntries(rows)
    IN IF SumField(es, 2) # SumField(es, 3)
       THEN [ok |-> FALSE, T |-> T, E |-> EntriesNotOf(E, tid),
             msg |-> <<"Transaction not balanced: Debits must equal Credits", 0, 0>>]
       ELSE [ok |-> TRUE,
             T |-> [id \in DOMAIN T |-> IF id = tid THEN [date |-> d] ELSE T[id]],
             E |-> EntriesNotOf(E, tid) \o EntryRows(tid, es),
             msg |-> <<"Transaction updated successfully!", 0, 0>>]

\* POST /transactions/<transaction_id>/edit on tables T, E: the form rows are
\* parsed, the totals compared, and only then come the DELETE of the old
\* entries, the UPDATE of the transaction row (no row, no effect), the
\* INSERTs and the commit.
EditResult(T, E, tid, d, rows) ==
    LET es == FormEntries(rows)
    IN IF SumField(es, 2) # SumField(es, 3)
       THEN [ok |-> FALSE, T |-> T, E |-> E,
             msg |-> <<"Transaction not balanced: Debits must equal Credits", 0, 0>>]
       ELSE [ok |-> TRUE,
             T |-> [id \in DOMAIN T |-> IF id = tid THEN [date |-> d] ELSE T[id]],
             E |-> EntriesNotOf(E, tid) \o EntryRows(tid, es),
             msg |-> <<"Transaction updated successfully!", 0, 0>>]

edit_transaction(tid, d, rows) ==
    \E r \in {EditResult(transactions, transaction_entries, tid, d, rows)} :
       /\ WithinBounds(r.T, r.E)
       /\ transactions' = r.T
       /\ transaction_entries' = r.E
       /\ ret' = [op |-> "edit_transaction", val |-> r.ok, msg |-> r.msg,
                  id |-> tid]
       /\ accounts' = get_accounting_system(accounts)
       /\ UNCHANGED <<ofx_imports, callers>>

\* Variant without the DELETE FROM transaction_entries.  C21 fails for it.
DeleteResult_keep_entries(A, T, E, tid) ==
    [A |-> get_accounting_system(A),
     T |-> [id \in DOMAIN T \ {tid} |-> T[id]],
     E |-> E]

\* GET /transactions/<transaction_id>/delete on tables A (accounts), T, E:
\* the database is opened, then DELETE FROM transaction_entries WHERE
\* transaction_id = ?, DELETE FROM transactions WHERE id = ?, commit.
DeleteResult(A, T, E, tid) ==
    [A |-> get_accounting_system(A),
     T |-> [id \in DOMAIN T \ {tid} |-> T[id]],
     E |-> EntriesNotOf(E, tid)]

delete_transaction(tid) ==
    \E r \in {DeleteResult(accounts, transactions, transaction_entries, tid)} :
       /\ transaction_entries' = r.E
       /\ transactions' = r.T
       /\ ret' = [op |-> "delete_transaction", val |-> TRUE,
                  msg |-> <<"Transaction deleted successfully!", 0, 0>>, id |-> tid]
       /\ accounts' = r.A
       /\ UNCHANGED <<ofx_imports, callers>>

(***************************************************************************)
(* AccountingSystem.parse_ofx_file, import_ofx_transactions                *)
(***************************************************************************)
\* None when the document has no BANKACCTFROM block (ValueError, caught)
parse_ofx_file(doc) == IF doc.acct THEN doc.records ELSE <<>>

\* Variant with the sides of a deposit exchanged: cash credited, income
\* debited.  C16 fails for it.
ImportEntries_swapped(c, a) ==
    IF a > 0
    THEN << <<c, 0, a>>, <<"4300", a, 0>> >>
    ELSE << <<"5240", 0 - a, 0>>, <<c, 0, 0 - a>> >>

\* the two entries of a record of signed amount a against cash account c
ImportEntries(c, a) ==
    IF a > 0
    THEN << <<c, a, 0>>, <<"4300", 0, a>> >>
    ELSE << <<"5240", 0 - a, 0>>, <<c, 0, 0 - a>> >>

\* Variant that posts each record under a generated TXN- id instead of the
\* id OFX_<fitid> the duplicate check looks up.  C8 fails for it.
RECURSIVE ImportLoop_generated_id(_, _, _, _, _)
ImportLoop_generated_id(T, E, n, recs, c) ==
    IF recs = <<>> THEN [T |-> T, E |-> E, n |-> n]
    ELSE LET trn == Head(recs)
             tid == <<"OFX", 0, trn.fitid>>
         IN IF trn.date = BadText \/ trn.amount = BadText
            THEN ImportLoop_generated_id(T, E, n, Tail(recs), c)
            ELSE IF tid \in DOMAIN T
            THEN ImportLoop_generated_id(T, E, n, Tail(recs), c)
            ELSE LET r == create_transaction(T, E,
                                             generate_transaction_id(T, trn.date),
                                             trn.date,
                                             ImportEntries(c, trn.amount))
                 IN ImportLoop_generated_id(r.T, r.E, IF r.ok THEN n + 1 ELSE n,
                                            Tail(recs), c)

\* The for loop over ofx_data['transactions'], from tables T, E and count n:
\* strptime and Decimal raise on bad text (the record is passed over), a
\* record whose OFX_ id has a transactions row is skipped, the others go
\* through create_transaction.
RECURSIVE ImportLoop(_, _, _, _, _)
ImportLoop(T, E, n, recs, c) ==
    IF recs = <<>> THEN [T |-> T, E |-> E, n |-> n]
    ELSE LET trn == Head(recs)
             tid == <<"OFX", 0, trn.fitid>>
         IN IF trn.date = BadText \/ trn.amount = BadText
            THEN ImportLoop(T, E, n, Tail(recs), c)
            ELSE IF tid \in DOMAIN T
            THEN ImportLoop(T, E, n, Tail(recs), c)
            ELSE LET r == create_transaction(T, E, tid, trn.date,
                                             ImportEntries(c, trn.amount))
                 IN ImportLoop(r.T, r.E, IF r.ok THEN n + 1 ELSE n,
                               Tail(recs), c)

\* Variant that runs the loop over the records of a document whose parse
\* raised.  C15 fails for it.
ImportResult_no_abort(T, E, doc, c) == ImportLoop(T, E, 0, doc.records, c)

\* tables and return value of import_ofx_transactions(file_path, c) on T, E
ImportResult(T, E, doc, c) ==
    IF ~doc.acct THEN [T |-> T, E |-> E, n |-> 0]
    ELSE ImportLoop(T, E, 0, parse_ofx_file(doc), c)

import_ofx_transactions(doc, c) ==
    \E r \in {ImportResult(transactions, transaction_entries, doc, c)} :
       /\ WithinBounds(r.T, r.E)
       /\ doc.acct => ofx_imports < MaxImports
       /\ transactions' = r.T
       /\ transaction_entries' = r.E
       /\ ofx_imports' = IF doc.acct THEN ofx_imports + 1 ELSE ofx_imports
       /\ ret' = [op |-> "import_ofx_transactions", val |-> r.n,
                  msg |-> NoMsg, id |-> NoId]
       /\ UNCHANGED <<accounts, callers>>

(***************************************************************************)
(* AccountingSystem.get_account_balance, generate_trial_balance            *)
(***************************************************************************)
\* as_of_date = None
NoDate == 0
AsOfDates == Dates \cup {NoDate}

\* SUM(column) over rows: SQLite adds the REAL values one by one, in the order
\* the rows are visited (rowid order)
RECURSIVE FloatSum(_, _, _)
FloatSum(acc, rows, col) ==
    IF rows = <<>> THEN acc
    ELSE FloatSum(FloatAdd(acc, Head(rows)[col]), Tail(rows), col)

\* The rows of accounts a LEFT JOIN transaction_entries te LEFT JOIN
\* transactions t that pass WHERE a.id = ? [AND date(t.date) <= date(?)]:
\* without the date clause every entry on the account, with it the entries
\* whose transaction row exists and is dated on or before as_of_date.
BalanceRows(T, E, account_id, as_of_date) ==
    SelectSeq(E, LAMBDA r :
        /\ r.account_id = account_id
        /\ \/ as_of_date = NoDate
           \/ (r.transaction_id \in DOMAIN T
               /\ T[r.transaction_id].date <= as_of_date))

get_account_balance(A, T, E, account_id, as_of_date) ==
    IF account_id \notin DOMAIN A THEN Zero
    ELSE LET rows          == BalanceRows(T, E, account_id, as_of_date)
             total_debits  == DecimalOfStr(FloatSum(Zero, rows, "debit_amount"))
             total_credits == DecimalOfStr(FloatSum(Zero, rows, "credit_amount"))
         IN IF A[account_id].account_type \in {"ASSET", "EXPENSE"}
            THEN Minus(total_debits, total_credits)
            ELSE Minus(total_credits, total_debits)

\* Variant that keeps an abnormal balance in the account's normal column, as
\* a negative number.  C27 fails for it.
RECURSIVE TrialBalanceLoop_signed(_, _, _, _, _, _, _, _)
TrialBalanceLoop_signed(A, T, E, as_of_date, ids, tb, td, tc) ==
    IF ids = <<>> THEN tb \o << <<"TOTAL", "TOTAL", td, tc>> >>
    ELSE LET account_id == Head(ids)
             rest       == Tail(ids)
         IN IF account_id \notin DOMAIN A \/ ~A[account_id].is_active
            THEN TrialBalanceLoop_signed(A, T, E, as_of_date, rest, tb, td, tc)
            ELSE LET balance == get_account_balance(A, T, E, account_id, as_of_date)
                     name    == A[account_id].name
                 IN IF balance = Zero
                    THEN TrialBalanceLoop_signed(A, T, E, as_of_date, rest, tb, td, tc)
                    ELSE IF A[account_id].account_type \in {"ASSET", "EXPENSE"}
                    THEN TrialBalanceLoop_signed(A, T, E, as_of_date, rest,
                            Append(tb, <<account_id, name, balance, Zero>>),
                            Plus(td, balance), tc)
                    ELSE TrialBalanceLoop_signed(A, T, E, as_of_date, rest,
                            Append(tb, <<account_id, name, Zero, balance>>),
                            td, Plus(tc, balance))

\* The loop of generate_trial_balance over the active accounts in id order,
\* from the rows tb and totals td, tc so far; rows are
\* <<account_id, name, debit column, credit column>>.
RECURSIVE TrialBalanceLoop(_, _, _, _, _, _, _, _)
TrialBalanceLoop(A, T, E, as_of_date, ids, tb, td, tc) ==
    IF ids = <<>> THEN tb \o << <<"TOTAL", "TOTAL", td, tc>> >>
    ELSE LET account_id == Head(ids)
             rest       == Tail(ids)
         IN IF account_id \notin DOMAIN A \/ ~A[account_id].is_active
            THEN TrialBalanceLoop(A, T, E, as_of_date, rest, tb, td, tc)
            ELSE LET balance == get_account_balance(A, T, E, account_id, as_of_date)
                     name    == A[account_id].name
                     debitN  == A[account_id].account_type \in {"ASSET", "EXPENSE"}
                 IN IF balance = Zero
                    THEN TrialBalanceLoop(A, T, E, as_of_date, rest, tb, td, tc)
                    ELSE IF (debitN /\ IsPos(balance)) \/ (~debitN /\ IsNeg(balance))
                    THEN TrialBalanceLoop(A, T, E, as_of_date, rest,
                            Append(tb, <<account_id, name, Abs(balance), Zero>>),
                            Plus(td, Abs(balance)), tc)
                    ELSE TrialBalanceLoop(A, T, E, as_of_date, rest,
                            Append(tb, <<account_id, name, Zero, Abs(balance)>>),
                            td, Plus(tc, Abs(balance)))

generate_trial_balance(A, T, E, as_of_date) ==
    TrialBalanceLoop(A, T, E, as_of_date, AccountOrder, <<>>, Zero, Zero)

(***************************************************************************)
(* AccountingSystem.export_to_ofx                                          *)
(***************************************************************************)
\* text order of transaction ids: "OFX_..." < "TXN-...", then the digits
IdBefore(x, y) ==
    \/ (x[1] = "OFX" /\ y[1] = "TXN")
    \/ (x[1] = y[1] /\ x[2] < y[2])
    \/ (x[1] = y[1] /\ x[2] = y[2] /\ x[3] < y[3])

\* ORDER BY t.date, t.id (rows of one transaction stay in rowid order)
RowBefore(T, x, y) ==
    \/ T[x.transaction_id].date < T[y.transaction_id].date
    \/ (T[x.transaction_id].date = T[y.transaction_id].date
        /\ IdBefore(x.transaction_id, y.transaction_id))

RECURSIVE InsertRow(_, _, _)
InsertRow(T, sorted, r) ==
    IF sorted = <<>> THEN <<r>>
    ELSE IF RowBefore(T, r, Head(sorted)) THEN <<r>> \o sorted
    ELSE <<Head(sorted)>> \o InsertRow(T, Tail(sorted), r)

RECURSIVE OrderByDateId(_, _, _)
OrderByDateId(T, sorted, rows) ==
    IF rows = <<>> THEN sorted
    ELSE OrderByDateId(T, InsertRow(T, sorted, Head(rows)), Tail(rows))

\* the amount without its sign
ExportAmount_abs(debit, credit) == Abs(Minus(credit, debit))

\* amount = credit - debit if credit > debit else -(debit - credit)
ExportAmount(debit, credit) ==
    IF IsPos(Minus(credit, debit)) THEN Minus(credit, debit)
    ELSE Neg(Minus(debit, credit))

\* SELECT ... FROM transactions t JOIN transaction_entries te ... WHERE
\* te.account_id = ? AND date(t.date) BETWEEN ... ORDER BY t.date, t.id
ExportRows(T, E, account_id, start_date, end_date) ==
    OrderByDateId(T, <<>>, SelectSeq(E, LAMBDA r :
        /\ r.account_id = account_id
        /\ r.transaction_id \in DOMAIN T
        /\ start_date <= T[r.transaction_id].date
        /\ T[r.transaction_id].date <= end_date))

\* One STMTTRN block per entry of account_id joined to a transaction dated
\* in [start_date, end_date]; ok is FALSE when the account is not found
\* (ValueError).
export_to_ofx(A, T, E, account_id, start_date, end_date) ==
    IF account_id \notin DOMAIN A THEN [ok |-> FALSE, stmttrn |-> <<>>]
    ELSE LET rows == ExportRows(T, E, account_id, start_date, end_date)
         IN [ok |-> TRUE,
             stmttrn |-> [k \in DOMAIN rows |->
                LET amount == ExportAmount(DecimalOfStr(rows[k].debit_amount),
                                           DecimalOfStr(rows[k].credit_amount))
                IN [TRNTYPE  |-> IF IsPos(amount) THEN "CREDIT" ELSE "DEBIT",
                    DTPOSTED |-> T[rows[k].transaction_id].date,
                    TRNAMT   |-> amount,
                    FITID    |-> rows[k].transaction_id]]]

(***************************************************************************)
(* AccountingSystem.get_bank_accounts, get_transactions_with_bank_balances *)
(***************************************************************************)
\* the account names of the model that pass name LIKE '%bank%' OR '%cash%' OR
\* '%checking%' OR '%savings%' (LIKE ignores case)
BankNames == {"Cash and Bank Accounts", "Petty Cash"}

\* ids of the active ASSET accounts with such a name, ORDER BY id
get_bank_accounts(A) ==
    SelectSeq(AccountOrder, LAMBDA a :
        /\ a \in DOMAIN A
        /\ A[a].account_type = "ASSET"
        /\ A[a].name \in BankNames
        /\ A[a].is_active)

\* (date, id) order of two transaction rows
TxnBefore(T, x, y) ==
    \/ T[x].date < T[y].date
    \/ (T[x].date = T[y].date /\ IdBefore(x, y))

\* ORDER BY t.date DESC, t.id DESC over the transaction ids in S
RECURSIVE OrderDesc(_, _)
OrderDesc(T, S) ==
    IF S = {} THEN <<>>
    ELSE LET m == CHOOSE x \in S : \A y \in S \ {x} : TxnBefore(T, y, x)
         IN <<m>> \o OrderDesc(T, S \ {m})

\* LIMIT ? OFFSET ? on a result list
LimitOffset(rows, limit, offset) ==
    SubSeq(rows, offset + 1,
           IF offset + limit < Len(rows) THEN offset + limit ELSE Len(rows))

\* The for loop over the page: the effect on each bank account is read with
\* fetchone() from the entries of the transaction on that account (the first
\* one in rowid order, debit - credit on the REAL values), the row gets a
\* copy of current_balances, and the effects are subtracted.
RECURSIVE BankBalancesLoop(_, _, _, _, _)
BankBalancesLoop(E, bank, txns, current_balances, out) ==
    IF txns = <<>> THEN out
    ELSE LET txn_id == Head(txns)
             bank_effects ==
                [acc \in bank |->
                    LET rows == SelectSeq(E, LAMBDA r :
                                   r.transaction_id = txn_id /\ r.account_id = acc)
                    IN IF rows = <<>> THEN Zero
                       ELSE DecimalOfStr(FloatSub(rows[1].debit_amount,
                                                  rows[1].credit_amount))]
         IN BankBalancesLoop(E, bank, Tail(txns),
               [acc \in bank |-> Minus(current_balances[acc], bank_effects[acc])],
               Append(out, [id |-> txn_id, date |-> 0,
                            bank_effects |-> bank_effects,
                            balances_after |-> current_balances]))

\* the list of rows the method returns (each with the transaction's id and
\* date)
get_transactions_with_bank_balances(A, T, E, limit, offset) ==
    LET bank == {get_bank_accounts(A)[k] : k \in DOMAIN get_bank_accounts(A)}
        page == LimitOffset(
                   OrderDesc(T, {tid \in DOMAIN T :
                                   \E k \in DOMAIN E :
                                      /\ E[k].transaction_id = tid
                                      /\ E[k].account_id \in bank}),
                   limit, offset)
        rows == BankBalancesLoop(E, bank, page,
                   [acc \in bank |-> get_account_balance(A, T, E, acc, NoDate)],
                   <<>>)
    IN IF bank = {} THEN <<>>
       ELSE [k \in DOMAIN rows |-> [rows[k] EXCEPT !.date = T[rows[k].id].date]]

(***************************************************************************)
(* AccountingSystem.get_account_transaction_history                        *)
(***************************************************************************)
\* The for loop: debit and credit are read back with Decimal(str(x)), the
\* effect follows the account type, running_balance is a Decimal.
RECURSIVE HistoryLoop(_, _, _, _, _)
HistoryLoop(T, rows, account_type, running_balance, out) ==
    IF rows = <<>> THEN out
    ELSE LET txn    == Head(rows)
             debit  == DecimalOfStr(txn.debit_amount)
             credit == DecimalOfStr(txn.credit_amount)
             effect == IF account_type \in {"ASSET", "EXPENSE"}
                       THEN Minus(debit, credit) ELSE Minus(credit, debit)
         IN HistoryLoop(T, Tail(rows), account_type, Plus(running_balance, effect),
               Append(out, [id |-> txn.transaction_id,
                            date |-> T[txn.transaction_id].date,
                            debit |-> debit, credit |-> credit, effect |-> effect,
                            running_balance |-> Plus(running_balance, effect)]))

\* transactions JOIN transaction_entries WHERE te.account_id = ? ORDER BY
\* t.date ASC, t.id ASC LIMIT ?; an account without row gives []
get_account_transaction_history(A, T, E, account_id, limit) ==
    IF account_id \notin DOMAIN A THEN <<>>
    ELSE HistoryLoop(T,
            LimitOffset(OrderByDateId(T, <<>>, SelectSeq(E, LAMBDA r :
                           /\ r.account_id = account_id
                           /\ r.transaction_id \in DOMAIN T)),
                        limit, 0),
            A[account_id].account_type, Zero, <<>>)

(***************************************************************************)
(* AccountingSystem.generate_income_statement                              *)
(***************************************************************************)
\* entries on account_id joined to a transaction dated in [start, end]
WindowRows(T, E, account_id, start_date, end_date) ==
    SelectSeq(E, LAMBDA r :
        /\ r.account_id = account_id
        /\ r.transaction_id \in DOMAIN T
        /\ start_date <= T[r.transaction_id].date
        /\ T[r.transaction_id].date <= end_date)

\* One of the two queries: for the accounts of the type, in id order, the
\* group of the rows that pass the WHERE clause (no row, no group), balance =
\* SUM(plus) - SUM(minus) on the REAL values, HAVING balance != 0; the list
\* holds (id, name, Decimal(str(balance))).
RECURSIVE StatementRows(_, _, _, _, _, _, _, _, _)
StatementRows(A, T, E, ids, account_type, plus, minus, start_date, end_date) ==
    IF ids = <<>> THEN <<>>
    ELSE LET a    == Head(ids)
             rest == StatementRows(A, T, E, Tail(ids), account_type, plus, minus,
                                   start_date, end_date)
         IN IF a \notin DOMAIN A \/ A[a].account_type # account_type THEN rest
            ELSE LET rows    == WindowRows(T, E, a, start_date, end_date)
                     balance == FloatSub(FloatSum(Zero, rows, plus),
                                         FloatSum(Zero, rows, minus))
                 IN IF rows = <<>> \/ balance = Zero THEN rest
                    ELSE << <<a, A[a].name, DecimalOfStr(balance)>> >> \o rest

\* sum(x[2] for x in list), on Decimals
RECURSIVE SumAmounts(_)
SumAmounts(list) ==
    IF list = <<>> THEN Zero ELSE Plus(Head(list)[3], SumAmounts(Tail(list)))

generate_income_statement(A, T, E, start_date, end_date) ==
    LET revenues == StatementRows(A, T, E, AccountOrder, "REVENUE",
                                  "credit_amount", "debit_amount",
                                  start_date, end_date)
        expenses == StatementRows(A, T, E, AccountOrder, "EXPENSE",
                                  "debit_amount", "credit_amount",
                                  start_date, end_date)
    IN [revenues |-> revenues, total_revenue |-> SumAmounts(revenues),
        expenses |-> expenses, total_expenses |-> SumAmounts(expenses),
        net_income |-> Minus(SumAmounts(revenues), SumAmounts(expenses))]

(***************************************************************************)
(* accounting_web_ui.py: new_account, edit_account, delete_account,        *)
(* toggle_account                                                          *)
(***************************************************************************)
\* POST /accounts/new
new_account(id, name, account_type, parent_id) ==
    \E r \in {create_account(get_accounting_system(accounts), id, name,
                             account_type, parent_id)} :
       /\ accounts' = r.A
       /\ ret' = [op |-> "new_account", val |-> r.ok, msg |-> NoMsg, id |-> NoId]
       /\ UNCHANGED <<transactions, transaction_entries, ofx_imports, callers>>

\* POST /accounts/<account_id>/edit: UPDATE accounts SET ... WHERE id = ?
edit_account(id, name, account_type, parent_id, is_active) ==
    \E A \in {get_accounting_system(accounts)} :
       /\ accounts' = [a \in DOMAIN A |->
                         IF a = id
                         THEN [name |-> name, account_type |-> account_type,
                               parent_id |-> parent_id, is_active |-> is_active]
                         ELSE A[a]]
       /\ ret' = [op |-> "edit_account", val |-> TRUE,
                  msg |-> <<"Account updated successfully!", 0, 0>>, id |-> NoId]
       /\ UNCHANGED <<transactions, transaction_entries, ofx_imports, callers>>

\* GET /accounts/<account_id>/delete
delete_account(id) ==
    \E A \in {get_accounting_system(accounts)} :
       IF get_account_balance(A, transactions, transaction_entries, id, NoDate) # Zero
       THEN /\ accounts' = A
            /\ ret' = [op |-> "delete_account", val |-> FALSE,
                       msg |-> <<"Cannot delete account with non-zero balance", 0, 0>>,
                       id |-> NoId]
            /\ UNCHANGED <<transactions, transaction_entries, ofx_imports, callers>>
       ELSE /\ accounts' = [a \in DOMAIN A \ {id} |-> A[a]]
            /\ ret' = [op |-> "delete_account", val |-> TRUE,
                       msg |-> <<"Account deleted successfully!", 0, 0>>, id |-> NoId]
            /\ UNCHANGED <<transactions, transaction_entries, ofx_imports, callers>>

\* GET /accounts/<account_id>/toggle: SET is_active = NOT is_active
toggle_account(id) ==
    \E A \in {get_accounting_system(accounts)} :
       /\ accounts' = [a \in DOMAIN A |->
                         IF a = id
                         THEN [A[a] EXCEPT !.is_active = ~A[a].is_active]
                         ELSE A[a]]
       /\ ret' = [op |-> "toggle_account", val |-> TRUE,
                  msg |-> <<"Account status updated!", 0, 0>>, id |-> NoId]
       /\ UNCHANGED <<transactions, transaction_entries, ofx_imports, callers>>

\* GET /accounts: the list page, which writes nothing but what opening the
\* database writes
accounts_page ==
    /\ accounts' = get_accounting_system(accounts)
    /\ ret' = [op |-> "accounts", val |-> TRUE, msg |-> NoMsg, id |-> NoId]
    /\ UNCHANGED <<transactions, transaction_entries, ofx_imports, callers>>

(***************************************************************************)
(* Specification                                                           *)
(***************************************************************************)
\* AccountingSystem.__init__ on a new database file
Init ==
    /\ accounts = setup_chart_of_accounts(<<>>)
    /\ transactions = <<>>
    /\ transaction_entries = <<>>
    /\ ofx_imports = 0
    /\ ret = [op |-> "init", val |-> TRUE, msg |-> NoMsg, id |-> NoId]
    /\ callers = [c \in Callers |->
                    [pc |-> "idle", date |-> 0, entries |-> <<>>, count |-> 0,
                     transaction_id |-> NoId, created |-> FALSE]]

\* the <transaction_id> of a request URL: a listed transaction, or a typed id
UrlIds == DOMAIN transactions \cup CallerIds

Next ==
    \/ \E tid \in CallerIds, d \in Dates, es \in EntryLists :
          CallCreateTransaction(tid, d, es)
    \/ \E d \in Dates : CallGenerateTransactionId(d)
    \/ \E d \in Dates, rows \in FormLists : new_transaction(d, rows)
    \/ \E tid \in UrlIds, d \in Dates, rows \in FormLists :
          edit_transaction(tid, d, rows)
    \/ \E tid \in UrlIds : delete_transaction(tid)
    \/ \E doc \in Statements, c \in CashAccounts :
          import_ofx_transactions(doc, c)

Spec == Init /\ [][Next]_vars

\* The ledger operations together with the account pages of the web UI.  The
\* account pages are driven for the default cash account and for an id that
\* is not in the seed chart.
ChartIds == {"1110", "6000"}

AccountStep ==
    \/ \E id \in ChartIds : new_account(id, "Petty Cash", "ASSET", "")
    \/ \E id \in ChartIds, account_type \in {"ASSET", "LIABILITY"},
          is_active \in BOOLEAN :
          /\ id \in DOMAIN accounts
          /\ edit_account(id, accounts[id].name, account_type,
                          accounts[id].parent_id, is_active)
    \/ \E id \in ChartIds : delete_account(id)
    \/ \E id \in ChartIds : toggle_account(id)
    \/ accounts_page

NextAccounts == Next \/ AccountStep

SpecAccounts == Init /\ [][NextAccounts]_vars

(***************************************************************************)
(* The transaction pages together with the creation and the deletion of    *)
(* accounts: the ledgers that postings, edits and deletions build, on      *)
(* directories with and without a seed account.                            *)
(***************************************************************************)
NextLedgerPages ==
    \/ \E tid \in CallerIds, d \in Dates, es \in SignedEntryLists :
          CallCreateTransaction(tid, d, es)
    \/ \E d \in Dates, rows \in FormLists : new_transaction(d, rows)
    \/ \E tid \in UrlIds, d \in Dates, rows \in FormLists :
          edit_transaction(tid, d, rows)
    \/ \E tid \in UrlIds : delete_transaction(tid)
    \/ \E id \in ChartIds : delete_account(id)
    \/ \E id \in ChartIds : new_account(id, "Petty Cash", "ASSET", "")

SpecLedgerPages == Init /\ [][NextLedgerPages]_vars

(***************************************************************************)
(* The account directory alone: the engine's create_account as the CLI     *)
(* calls it, and the account pages with every field of their forms.        *)
(***************************************************************************)
\* main, choice "1": accounting.create_account(account_id, name, acc_type,
\* parent_id) on the connection the CLI opened at start
CallCreateAccount(id, name, account_type, parent_id) ==
    \E r \in {create_account(accounts, id, name, account_type, parent_id)} :
       /\ accounts' = r.A
       /\ ret' = [op |-> "create_account", val |-> r.ok, msg |-> NoMsg, id |-> NoId]
       /\ UNCHANGED <<transactions, transaction_entries, ofx_imports, callers>>

\* what the account forms are filled with; "" is no parent (None)
FormNames == {"Cash and Bank Accounts", "Petty Cash"}
FormTypes == {"ASSET", "LIABILITY"}
FormParents == {"", "1100", "1110", "6000"}

NextDirectory ==
    \/ \E id \in ChartIds, name \in FormNames, account_type \in FormTypes,
          parent_id \in FormParents :
          CallCreateAccount(id, name, account_type, parent_id)
    \/ \E id \in ChartIds, name \in FormNames, account_type \in FormTypes,
          parent_id \in FormParents :
          new_account(id, name, account_type, parent_id)
    \/ \E id \in ChartIds, name \in FormNames, account_type \in FormTypes,
          parent_id \in FormParents, is_active \in BOOLEAN :
          edit_account(id, name, account_type, parent_id, is_active)
    \/ \E id \in ChartIds : delete_account(id)
    \/ \E id \in ChartIds : toggle_account(id)
    \/ accounts_page

SpecDirectory == Init /\ [][NextDirectory]_vars

(***************************************************************************)
(* The reports.  They only read the store, so the store is drawn at the    *)
(* start from the ledgers that up to MaxListed postings build (each        *)
(* posted as new_transaction does: generate_transaction_id, then           *)
(* create_transaction), on the seeded directory or on the directory after  *)
(* GET /accounts/4300/toggle; the actions are the calls of the reports.    *)
(***************************************************************************)
MaxListed == 2

\* what is posted: a deposit of 0.3, an expense of 0.3 paid from cash, a
\* deposit of 0.1 + 0.2 booked as 0.1 + 0.2 of income, a deposit entered with
\* both a debit (0.5) and a credit (0.2) on the cash entry, and a refund of
\* 0.3 of income
ReportEntryLists ==
    { << <<"1110", 3, 0>>, <<"4300", 0, 3>> >>,
      << <<"5240", 3, 0>>, <<"1110", 0, 3>> >>,
      << <<"1110", 1, 0>>, <<"1110", 2, 0>>, <<"4300", 0, 1>>, <<"4300", 0, 2>> >>,
      << <<"1110", 5, 2>>, <<"4300", 0, 3>> >>,
      << <<"4300", 3, 0>>, <<"1110", 0, 3>> >>,
      << <<"5240", 0 - 3, 0>>, <<"1110", 0, 0 - 3>> >> }

Postings == [date : Dates, entries : ReportEntryLists]

\* the tables after the postings ps, from tables T, E
RECURSIVE PostAll(_, _, _)
PostAll(T, E, ps) ==
    IF ps = <<>> THEN [T |-> T, E |-> E]
    ELSE LET r == create_transaction(T, E,
                     generate_transaction_id(T, Head(ps).date),
                     Head(ps).date, Head(ps).entries)
         IN PostAll(r.T, r.E, Tail(ps))

ReportDirectories ==
    { setup_chart_of_accounts(<<>>),
      [setup_chart_of_accounts(<<>>) EXCEPT !["4300"].is_active = FALSE] }

InitReports ==
    /\ accounts \in ReportDirectories
    /\ \E n \in 0 .. MaxListed : \E ps \in [1 .. n -> Postings] :
          /\ transactions = PostAll(<<>>, <<>>, ps).T
          /\ transaction_entries = PostAll(<<>>, <<>>, ps).E
    /\ ofx_imports = 0
    /\ ret = [op |-> "init", val |-> TRUE, msg |-> NoMsg, id |-> NoId]
    /\ callers = [c \in Callers |->
                    [pc |-> "idle", date |-> 0, entries |-> <<>>, count |-> 0,
                     transaction_id |-> NoId, created |-> FALSE]]

\* limit and offset of a page: one row per page, or all rows on one page
Limits == {1, MaxListed + 1}
Offsets == 0 .. 1

CallBankBalances(limit, offset) ==
    /\ ret' = [op |-> "get_transactions_with_bank_balances",
               val |-> get_transactions_with_bank_balances(
                          accounts, transactions, transaction_entries,
                          limit, offset),
               msg |-> <<"", limit, offset>>, id |-> NoId]
    /\ UNCHANGED <<accounts, transactions, transaction_entries, ofx_imports, callers>>

CallHistory(account_id, limit) ==
    /\ ret' = [op |-> "get_account_transaction_history",
               val |-> get_account_transaction_history(
                          accounts, transactions, transaction_entries,
                          account_id, limit),
               msg |-> <<account_id, limit, 0>>, id |-> NoId]
    /\ UNCHANGED <<accounts, transactions, transaction_entries, ofx_imports, callers>>

CallTrialBalance(as_of_date) ==
    /\ ret' = [op |-> "generate_trial_balance",
               val |-> generate_trial_balance(
                          accounts, transactions, transaction_entries, as_of_date),
               msg |-> <<"", as_of_date, 0>>, id |-> NoId]
    /\ UNCHANGED <<accounts, transactions, transaction_entries, ofx_imports, callers>>

CallIncomeStatement(start_date, end_date) ==
    /\ ret' = [op |-> "generate_income_statement",
               val |-> generate_income_statement(
                          accounts, transactions, transaction_entries,
                          start_date, end_date),
               msg |-> <<"", start_date, end_date>>, id |-> NoId]
    /\ UNCHANGED <<accounts, transactions, transaction_entries, ofx_imports, callers>>

CallExportToOfx(account_id, start_date, end_date) ==
    /\ ret' = [op |-> "export_to_ofx",
               val |-> export_to_ofx(
                          accounts, transactions, transaction_entries,
                          account_id, start_date, end_date),
               msg |-> <<account_id, start_date, end_date>>, id |-> NoId]
    /\ UNCHANGED <<accounts, transactions, transaction_entries, ofx_imports, callers>>

\* one specification per report: the store is drawn, the report is called
NextBankBalances ==
    \E limit \in Limits, offset \in Offsets : CallBankBalances(limit, offset)

SpecBankBalances == InitReports /\ [][NextBankBalances]_vars

NextHistory ==
    \E account_id \in AccountIds, limit \in Limits : CallHistory(account_id, limit)

SpecHistory == InitReports /\ [][NextHistory]_vars

NextTrialBalance ==
    \E as_of_date \in AsOfDates : CallTrialBalance(as_of_date)

SpecTrialBalance == InitReports /\ [][NextTrialBalance]_vars

NextIncomeStatement ==
    \E start_date \in Dates, end_date \in Dates :
       start_date <= end_date /\ CallIncomeStatement(start_date, end_date)

SpecIncomeStatement == InitReports /\ [][NextIncomeStatement]_vars

NextExport ==
    \E account_id \in AccountIds, start_date \in Dates, end_date \in Dates :
       start_date <= end_date /\ CallExportToOfx(account_id, start_date, end_date)

SpecExport == InitReports /\ [][NextExport]_vars

(***************************************************************************)
(* Two requests POST /transactions/new at once.  Each runs on its own      *)
(* connection (get_accounting_system), so the statements of                *)
(* generate_transaction_id (the COUNT query, then one SELECT per pass of   *)
(* the while loop) interleave with the other request's; create_transaction *)
(* is one SQLite write transaction and runs as a unit.                     *)
(***************************************************************************)
\* the database is opened and the form parsed: lines 357-378
ConcStart(c, d, rows) ==
    /\ callers[c].pc = "idle"
    /\ callers' = [callers EXCEPT ![c] =
                      [@ EXCEPT !.pc = "count", !.date = d,
                                !.entries = FormEntries(rows)]]
    /\ accounts' = get_accounting_system(accounts)
    /\ UNCHANGED <<transactions, transaction_entries, ofx_imports, ret>>

\* count = cursor.fetchone()['count'] + 1
ConcCount(c) ==
    /\ callers[c].pc = "count"
    /\ callers' = [callers EXCEPT ![c] =
                      [@ EXCEPT !.pc = "check",
                                !.count = CountOnDate(transactions, callers[c].date) + 1]]
    /\ UNCHANGED <<accounts, transactions, transaction_entries, ofx_imports, ret>>

\* one pass of the while loop
ConcCheck(c) ==
    /\ callers[c].pc = "check"
    /\ callers' = [callers EXCEPT ![c] =
                      IF <<"TXN", callers[c].date, callers[c].count>> \in DOMAIN transactions
                      THEN [@ EXCEPT !.count = @ + 1]
                      ELSE [@ EXCEPT !.pc = "create",
                                     !.transaction_id =
                                        <<"TXN", callers[c].date, callers[c].count>>]]
    /\ UNCHANGED <<accounts, transactions, transaction_entries, ofx_imports, ret>>

\* accounting.create_transaction(transaction_id, ...) and the flash
ConcCreate(c) ==
    /\ callers[c].pc = "create"
    /\ \E r \in {create_transaction(transactions, transaction_entries,
                                    callers[c].transaction_id, callers[c].date,
                                    callers[c].entries)} :
          /\ transactions' = r.T
          /\ transaction_entries' = r.E
          /\ ret' = [op |-> "new_transaction", val |-> r.ok, msg |-> r.msg,
                     id |-> IF r.ok THEN callers[c].transaction_id ELSE NoId]
          /\ callers' = [callers EXCEPT ![c] =
                            [@ EXCEPT !.pc = "done", !.created = r.ok]]
    /\ UNCHANGED <<accounts, ofx_imports>>

NextConcurrent ==
    \/ \E c \in Callers, d \in Dates, rows \in FormLists : ConcStart(c, d, rows)
    \/ \E c \in Callers : ConcCount(c)
    \/ \E c \in Callers : ConcCheck(c)
    \/ \E c \in Callers : ConcCreate(c)

SpecConcurrent == Init /\ [][NextConcurrent]_vars

(***************************************************************************)
(* Two imports of one statement at once, each on its own connection.  The  *)
(* SELECT of the duplicate check is a statement of its own, so the checks  *)
(* of one import interleave with the inserts of the other;                 *)
(* create_transaction is one SQLite write transaction and runs as a unit.  *)
(* The locals of an import: doc and cash (the arguments), k (the record    *)
(* the for loop is at), transaction_id, imported_count, errors (the        *)
(* "Error creating transaction" lines it has printed) and existing (the    *)
(* ids that had a row when it began, kept for the properties).             *)
(***************************************************************************)
InitImports ==
    /\ accounts = setup_chart_of_accounts(<<>>)
    /\ transactions = <<>>
    /\ transaction_entries = <<>>
    /\ ofx_imports = 0
    /\ ret = [op |-> "init", val |-> TRUE, msg |-> NoMsg, id |-> NoId]
    /\ callers = [c \in Callers |->
                    [pc |-> "idle", doc |-> [acct |-> FALSE, records |-> <<>>],
                     cash |-> "", k |-> 0, transaction_id |-> NoId,
                     imported_count |-> 0, errors |-> 0, existing |-> {}]]

\* an import that ran to its end before the two began
ImpEarlier(doc, cash) ==
    /\ \A c \in Callers : callers[c].pc = "idle"
    /\ import_ofx_transactions(doc, cash)

\* the next pass of the for loop, or the end of the loop
ImpAdvance(l) ==
    [l EXCEPT !.k = @ + 1,
              !.pc = IF l.k + 1 > Len(l.doc.records) THEN "record" ELSE "check"]

\* the connection is opened and the file parsed; without a BANKACCTFROM
\* block the import returns 0
ImpStart(c, doc, cash) ==
    /\ callers[c].pc = "idle"
    /\ \A o \in Callers \ {c} : callers[o].pc # "idle" => callers[o].doc = doc
    /\ accounts' = get_accounting_system(accounts)
    /\ IF doc.acct
       THEN /\ callers' = [callers EXCEPT ![c] =
                             [@ EXCEPT !.pc = "check", !.doc = doc, !.cash = cash,
                                       !.k = 1, !.existing = DOMAIN transactions]]
            /\ ret' = ret
       ELSE /\ callers' = [callers EXCEPT ![c] =
                             [@ EXCEPT !.pc = "done", !.doc = doc, !.cash = cash,
                                       !.existing = DOMAIN transactions]]
            /\ ret' = [op |-> "import_ofx_transactions", val |-> 0,
                       msg |-> NoMsg, id |-> NoId]
    /\ UNCHANGED <<transactions, transaction_entries, ofx_imports>>

\* strptime, Decimal and the SELECT of the duplicate check for record k
ImpCheck(c) ==
    /\ callers[c].pc = "check"
    /\ LET trn == callers[c].doc.records[callers[c].k]
           tid == <<"OFX", 0, trn.fitid>>
       IN callers' = [callers EXCEPT ![c] =
                         IF trn.date = BadText \/ trn.amount = BadText
                         THEN ImpAdvance(@)
                         ELSE IF tid \in DOMAIN transactions
                         THEN ImpAdvance([@ EXCEPT !.transaction_id = tid])
                         ELSE [@ EXCEPT !.pc = "create", !.transaction_id = tid]]
    /\ UNCHANGED <<accounts, transactions, transaction_entries, ofx_imports, ret>>

\* if self.create_transaction(...): imported_count += 1
ImpCreate(c) ==
    /\ callers[c].pc = "create"
    /\ LET trn == callers[c].doc.records[callers[c].k]
       IN \E r \in {create_transaction(transactions, transaction_entries,
                                       callers[c].transaction_id, trn.date,
                                       ImportEntries(callers[c].cash, trn.amount))} :
             /\ transactions' = r.T
             /\ transaction_entries' = r.E
             /\ callers' = [callers EXCEPT ![c] =
                               ImpAdvance(IF r.ok
                                          THEN [@ EXCEPT !.imported_count = @ + 1]
                                          ELSE [@ EXCEPT !.errors = @ + 1])]
             /\ ret' = IF r.ok THEN ret
                       ELSE [op |-> "create_transaction", val |-> FALSE,
                             msg |-> r.msg, id |-> NoId]
    /\ UNCHANGED <<accounts, ofx_imports>>

\* the INSERT INTO ofx_imports, and return imported_count
ImpRecord(c) ==
    /\ callers[c].pc = "record"
    /\ ofx_imports' = ofx_imports + 1
    /\ callers' = [callers EXCEPT ![c] = [@ EXCEPT !.pc = "done"]]
    /\ ret' = [op |-> "import_ofx_transactions", val |-> callers[c].imported_count,
               msg |-> NoMsg, id |-> NoId]
    /\ UNCHANGED <<accounts, transactions, transaction_entries>>

NextImports ==
    \/ \E doc \in Statements, cash \in CashAccounts : ImpEarlier(doc, cash)
    \/ \E c \in Callers, doc \in Statements, cash \in CashAccounts :
          ImpStart(c, doc, cash)
    \/ \E c \in Callers : ImpCheck(c)
    \/ \E c \in Callers : ImpCreate(c)
    \/ \E c \in Callers : ImpRecord(c)

SpecImports == InitImports /\ [][NextImports]_vars

(***************************************************************************)
(* Properties                                                              *)
(***************************************************************************)
\* exact sum of a stored column over rows
RECURSIVE ExactSum(_, _)
ExactSum(rows, col) ==
    IF rows = <<>> THEN Zero ELSE Plus(Head(rows)[col], ExactSum(Tail(rows), col))

\* debits minus credits of rows, each amount read back from its REAL column
\* the way the program reads one, Decimal(str(x)), and added exactly
RECURSIVE NetOf(_)
NetOf(rows) ==
    IF rows = <<>> THEN Zero
    ELSE Plus(Minus(DecimalOfStr(Head(rows).debit_amount),
                    DecimalOfStr(Head(rows).credit_amount)),
              NetOf(Tail(rows)))

\* the entries as passed do not balance
Unbalanced(es) == SumField(es, 2) # SumField(es, 3)

\* C1: every transaction in the store is balanced: the debit amounts of its
\* entries and the credit amounts of its entries have exactly the same sum.
C1_StoredTransactionsBalanced ==
    \A tid \in DOMAIN transactions :
       ExactSum(EntriesOf(transaction_entries, tid), "debit_amount")
          = ExactSum(EntriesOf(transaction_entries, tid), "credit_amount")

\* C2: at every instant the sum, over the accounts in the directory, of total
\* debits minus total credits posted to the account is exactly zero.
C2_DirectoryNetIsZero ==
    NetOf(SelectSeq(transaction_entries,
                    LAMBDA r : r.account_id \in DOMAIN accounts)) = Zero

\* C3: for every asOf (and with none) the TOTAL row of the trial balance has
\* equal debit and credit columns.
C3_TrialBalanceTotalsEqual ==
    \A as_of_date \in AsOfDates :
       LET tb == generate_trial_balance(accounts, transactions,
                                        transaction_entries, as_of_date)
       IN tb[Len(tb)][3] = tb[Len(tb)][4]

\* C4: on every ledger the program reaches, a create_transaction call whose
\* entries' debit and credit totals differ (whatever its id and date) fails
\* and leaves the transactions and the entries as they were; the account
\* balances are read from these two tables (get_account_balance), so none of
\* them changes.
C4_UnbalancedCreateRejected ==
    \A tid \in TxnIds, d \in Dates, es \in EntryLists :
       Unbalanced(es)
          => \E r \in {create_transaction(transactions, transaction_entries,
                                          tid, d, es)} :
                /\ r.ok = FALSE
                /\ r.T = transactions
                /\ r.E = transaction_entries

\* an unbalanced direct call has returned False on a ledger that holds a
\* transaction
C4_Witness ==
    /\ ret.op = "create_transaction"
    /\ ret.val = FALSE
    /\ ret.msg[1] = "Transaction not balanced"
    /\ ret.msg[2] # ret.msg[3]
    /\ transaction_entries # <<>>

\* C5: on every ledger the program reaches, an edit of a stored transaction
\* whose new entries' debit and credit totals differ fails: the transaction
\* row and the entries stay as they were.
C5_UnbalancedEditRejected ==
    \A tid \in DOMAIN transactions, d \in Dates, rows \in FormLists :
       Unbalanced(FormEntries(rows))
          => \E r \in {EditResult(transactions, transaction_entries, tid, d, rows)} :
                /\ r.ok = FALSE
                /\ r.T = transactions
                /\ r.E = transaction_entries

\* an unbalanced edit of a stored transaction with entries has been refused
C5_Witness ==
    /\ ret.op = "edit_transaction"
    /\ ret.val = FALSE
    /\ ret.id \in DOMAIN transactions
    /\ EntriesOf(transaction_entries, ret.id) # <<>>

\* C6: the id generate_transaction_id returns is the id of no stored
\* transaction; so the create_transaction of the new-transaction form, which
\* posts under that id, never fails on the primary key of transactions.
C6_GeneratedIdIsFresh ==
    /\ ret.op = "generate_transaction_id" => ret.val \notin DOMAIN transactions
    /\ ret.op = "new_transaction"
          => ret.msg[1] # "UNIQUE constraint failed: transactions.id"

\* an id was generated although the first candidate (count + 1) was taken
C6_Witness ==
    /\ ret.op = "generate_transaction_id"
    /\ ret.val[3] > CountOnDate(transactions, ret.val[2]) + 1
    /\ <<"TXN", ret.val[2], CountOnDate(transactions, ret.val[2]) + 1>>
          \in DOMAIN transactions

\* C7: when two callers generate an id and post a balanced transaction
\* concurrently, both postings are committed, under distinct ids.
C7_ConcurrentPostingsCommit ==
    /\ \A c \in Callers :
          (callers[c].pc = "done" /\ ~Unbalanced(callers[c].entries))
             => /\ callers[c].created
                /\ callers[c].transaction_id \in DOMAIN transactions
    /\ \A c1, c2 \in Callers :
          (c1 # c2 /\ callers[c1].pc = "done" /\ callers[c2].pc = "done"
           /\ ~Unbalanced(callers[c1].entries) /\ ~Unbalanced(callers[c2].entries))
             => callers[c1].transaction_id # callers[c2].transaction_id

\* C8: on every ledger the program reaches, importing a statement and then
\* importing it once more into the same cash account leaves transactions and
\* entries as the first import left them, and the second import returns 0.
C8_ImportIdempotent ==
    \A doc \in Statements, c \in CashAccounts :
       \E first \in {ImportResult(transactions, transaction_entries, doc, c)} :
       \E again \in {ImportResult(first.T, first.E, doc, c)} :
          /\ again.T = first.T
          /\ again.E = first.E
          /\ again.n = 0

\* an import has committed at least one record
C8_Witness ==
    /\ ret.op = "import_ofx_transactions"
    /\ ret.val > 0
    /\ \E f \in FitIds : <<"OFX", 0, f>> \in DOMAIN transactions
    /\ transaction_entries # <<>>

\* record k of the statement is the one this import step committed under its
\* OFX_ id
C9_Committed(doc, k) ==
    LET recs == parse_ofx_file(doc)
    IN /\ doc.acct
       /\ recs[k].date # BadText /\ recs[k].amount # BadText
       /\ <<"OFX", 0, recs[k].fitid>> \notin DOMAIN transactions
       /\ <<"OFX", 0, recs[k].fitid>> \in DOMAIN transactions'
       /\ \A j \in 1 .. (k - 1) :
             recs[j].fitid = recs[k].fitid
                => (recs[j].date = BadText \/ recs[j].amount = BadText)

\* C9: for a record of signed amount a imported into cash account C, the
\* export of C over a range holding the record's date carries a STMTTRN for
\* the imported transaction whose TRNAMT is a.
C9_ExportInvertsImport ==
    [][ \A doc \in Statements, c \in CashAccounts :
           (import_ofx_transactions(doc, c) /\ c \in DOMAIN accounts)
              => \A k \in DOMAIN doc.records :
                    C9_Committed(doc, k)
                       => \E x \in {export_to_ofx(accounts', transactions',
                                       transaction_entries', c,
                                       doc.records[k].date, doc.records[k].date)} :
                             /\ x.ok
                             /\ \E i \in DOMAIN x.stmttrn :
                                   /\ x.stmttrn[i].FITID
                                         = <<"OFX", 0, doc.records[k].fitid>>
                                   /\ x.stmttrn[i].TRNAMT
                                         = <<doc.records[k].amount, 0>>
      ]_vars

\* C10: get_account_balance(A, asOf) is the signed sum of debit minus credit
\* over the entries on A whose transaction is dated on or before asOf (all
\* the entries on A when asOf is left out): as it is for ASSET and EXPENSE
\* accounts, negated for the other types.
C10_BalanceIsSignedSum ==
    \A a \in DOMAIN accounts, as_of_date \in AsOfDates :
       LET rows == SelectSeq(transaction_entries, LAMBDA r :
                      /\ r.account_id = a
                      /\ (as_of_date # NoDate
                            => (r.transaction_id \in DOMAIN transactions
                                /\ transactions[r.transaction_id].date <= as_of_date)))
       IN get_account_balance(accounts, transactions, transaction_entries,
                              a, as_of_date)
             = IF accounts[a].account_type \in {"ASSET", "EXPENSE"}
               THEN NetOf(rows) ELSE Neg(NetOf(rows))

\* C11: get_account_balance of an id that is not in the account directory
\* gives an outcome other than the balance zero of an account that exists.
C11_NotFoundDistinguishable ==
    \A a \in AccountIds \ DOMAIN accounts, as_of_date \in AsOfDates :
       get_account_balance(accounts, transactions, transaction_entries,
                           a, as_of_date) # Zero

\* C12: on every ledger the program reaches, a create_transaction call with
\* balanced entries under the id of a stored transaction fails and leaves
\* the transactions and the entries as they were.
C12_DuplicateIdRejected ==
    \A tid \in DOMAIN transactions, d \in Dates, es \in EntryLists :
       ~Unbalanced(es)
          => \E r \in {create_transaction(transactions, transaction_entries,
                                          tid, d, es)} :
                /\ r.ok = FALSE
                /\ r.T = transactions
                /\ r.E = transaction_entries

\* a direct call under the id of a stored transaction has returned False
C12_Witness ==
    /\ ret.op = "create_transaction"
    /\ ret.val = FALSE
    /\ ret.msg[1] = "UNIQUE constraint failed: transactions.id"
    /\ \E tid \in DOMAIN transactions :
          EntriesOf(transaction_entries, tid) # <<>>

\* C13: create_account on an id that exists returns False and leaves every
\* account as it was; on an id that does not exist it returns True, inserts
\* the account with the given name, type and parent, active, and leaves the
\* other accounts as they were.
C13_CreateAccountInsertsIfAbsent ==
    \A id \in AccountIds, name \in FormNames, account_type \in FormTypes,
       parent_id \in FormParents :
       \E r \in {create_account(accounts, id, name, account_type, parent_id)} :
          IF id \in DOMAIN accounts
          THEN r.ok = FALSE /\ r.A = accounts
          ELSE /\ r.ok = TRUE
               /\ DOMAIN r.A = DOMAIN accounts \cup {id}
               /\ r.A[id] = [name |-> name, account_type |-> account_type,
                             parent_id |-> parent_id, is_active |-> TRUE]
               /\ \A a \in DOMAIN accounts : r.A[a] = accounts[a]

\* create_account has returned False for an id whose account had been edited
\* and deactivated before
C13_Witness ==
    /\ ret.op = "create_account"
    /\ ret.val = FALSE
    /\ "1110" \in DOMAIN accounts
    /\ accounts["1110"].account_type = "LIABILITY"
    /\ ~accounts["1110"].is_active

\* the ids of the seed chart
SeedIds == {standard_accounts[k].id : k \in DOMAIN standard_accounts}

\* C14: setup_chart_of_accounts, run on any directory the program reaches,
\* modifies no account that is there (renamed, retyped or deactivated ones
\* included) and inserts the seed ids that are missing, nothing else; where
\* all seed ids are there it changes nothing, and a second run after the
\* first changes nothing.
C14_SeedingIdempotent ==
    \E B \in {setup_chart_of_accounts(accounts)} :
       /\ DOMAIN B = DOMAIN accounts \cup SeedIds
       /\ \A a \in DOMAIN accounts : B[a] = accounts[a]
       /\ \A k \in DOMAIN standard_accounts :
             standard_accounts[k].id \notin DOMAIN accounts
                => B[standard_accounts[k].id]
                      = [name |-> standard_accounts[k].name,
                         account_type |-> standard_accounts[k].account_type,
                         parent_id |-> standard_accounts[k].parent_id,
                         is_active |-> TRUE]
       /\ SeedIds \subseteq DOMAIN accounts => B = accounts
       /\ setup_chart_of_accounts(B) = B

\* a page was loaded (the database opened, the chart seeded again) while a
\* seed account stood renamed, retyped and deactivated
C14_Witness ==
    /\ ret.op = "accounts"
    /\ "1110" \in DOMAIN accounts
    /\ accounts["1110"].name = "Petty Cash"
    /\ accounts["1110"].account_type = "LIABILITY"
    /\ ~accounts["1110"].is_active


\* C15: an import of a statement without a BANKACCTFROM block (parse_ofx_file
\* raises, as it does on text that is no XML, and returns None) returns 0 and
\* leaves the transactions and the entries as they were, whatever records
\* the statement holds.
C15_NoAccountBlockImportsNothing ==
    \A doc \in Statements, c \in CashAccounts :
       ~doc.acct
          => /\ doc.records # <<>>
             /\ ImportResult(transactions, transaction_entries, doc, c)
                   = [T |-> transactions, E |-> transaction_entries, n |-> 0]

\* an import of a statement without account block has returned 0 although
\* the record it holds was not in the ledger (only such an import leaves
\* ofx_imports without a row)
C15_Witness ==
    /\ ret.op = "import_ofx_transactions"
    /\ ret.val = 0
    /\ ofx_imports = 0
    /\ \E doc \in Statements :
          /\ ~doc.acct
          /\ \E k \in DOMAIN doc.records :
                /\ doc.records[k].date # BadText
                /\ doc.records[k].amount # BadText
                /\ <<"OFX", 0, doc.records[k].fitid>> \notin DOMAIN transactions

\* the stored entry reads back as account acct, debit dr, credit cr (tenths)
C16_Reads(row, acct, dr, cr) ==
    /\ row.account_id = acct
    /\ DecimalOfStr(row.debit_amount) = <<dr, 0>>
    /\ DecimalOfStr(row.credit_amount) = <<cr, 0>>

\* C16: an import commits as many transactions as it returns, and each of
\* them has the id OFX_<fitid> of a record of the statement, of amount a, and
\* exactly two entries of magnitude |a|: for a > 0 a debit on the cash
\* account and a credit on '4300', for a < 0 a debit on '5240' and a credit
\* on the cash account.
C16_ImportPostsTwoEntries ==
    \A doc \in Statements, c \in CashAccounts :
       \E r \in {ImportResult(transactions, transaction_entries, doc, c)} :
          /\ Cardinality(DOMAIN r.T \ DOMAIN transactions) = r.n
          /\ \A tid \in DOMAIN r.T \ DOMAIN transactions :
                \E k \in DOMAIN doc.records :
                   LET a == doc.records[k].amount
                       rows == EntriesOf(r.E, tid)
                   IN /\ tid = <<"OFX", 0, doc.records[k].fitid>>
                      /\ a # BadText
                      /\ Len(rows) = 2
                      /\ a > 0 => /\ C16_Reads(rows[1], c, a, 0)
                                  /\ C16_Reads(rows[2], "4300", 0, a)
                      /\ a < 0 => /\ C16_Reads(rows[1], "5240", 0 - a, 0)
                                  /\ C16_Reads(rows[2], c, 0, 0 - a)
                      /\ a = 0 => \A i \in 1 .. 2 :
                                     /\ DecimalOfStr(rows[i].debit_amount) = Zero
                                     /\ DecimalOfStr(rows[i].credit_amount) = Zero

\* an import has committed a withdrawal: its transaction debits '5240' and
\* credits the cash account by 0.3
C16_Witness ==
    /\ ret.op = "import_ofx_transactions"
    /\ ret.val = 1
    /\ \E f \in FitIds, c \in CashAccounts :
          LET rows == EntriesOf(transaction_entries, <<"OFX", 0, f>>)
          IN /\ <<"OFX", 0, f>> \in DOMAIN transactions
             /\ Len(rows) = 2
             /\ C16_Reads(rows[1], "5240", 3, 0)
             /\ C16_Reads(rows[2], c, 0, 3)

\* C17: no step adds an entry on an account that is inactive when the step
\* is taken: every entry row a step writes is on an account that is active
\* (or on an id that is not in the directory at all).
C17_NoPostingOnInactiveAccount ==
    [][ \A k \in DOMAIN transaction_entries' :
           LET row == transaction_entries'[k]
           IN (/\ \A j \in DOMAIN transaction_entries :
                     transaction_entries[j] # row
               /\ row.account_id \in DOMAIN accounts)
                 => accounts[row.account_id].is_active ]_vars

\* C18: no step removes an account from the directory and leaves an entry
\* that references it.
C18_ReferencedAccountNotRemoved ==
    [][ \A a \in DOMAIN accounts \ DOMAIN accounts' :
           \A k \in DOMAIN transaction_entries' :
              transaction_entries'[k].account_id # a ]_vars

\* C19: no step changes the type of an account that is in the directory
\* before and after it.
C19_AccountTypeFixed ==
    [][ \A a \in DOMAIN accounts \cap DOMAIN accounts' :
           accounts'[a].account_type = accounts[a].account_type ]_vars

\* the account reached from a by following parent_id n times ("" is NULL, an
\* id without a row has no parent)
RECURSIVE C20_Ancestor(_, _, _)
C20_Ancestor(A, a, n) ==
    IF n = 0 THEN a
    ELSE IF a \notin DOMAIN A THEN ""
    ELSE C20_Ancestor(A, A[a].parent_id, n - 1)

\* C20: following parent_id from an account of the directory never comes
\* back to that account.
C20_ParentRelationAcyclic ==
    \A a \in DOMAIN accounts :
       \A n \in 1 .. Cardinality(DOMAIN accounts) :
          C20_Ancestor(accounts, a, n) # a

\* what C21 says of transactions and entries: after the deletion of tid from
\* T, E the result has no transaction row tid and no entry of tid, and every
\* other transaction row and entry is as it was, in the same order
C21_Ledger(T, E, r, tid) ==
    /\ tid \notin DOMAIN r.T
    /\ \A k \in DOMAIN r.E : r.E[k].transaction_id # tid
    /\ DOMAIN r.T = DOMAIN T \ {tid}
    /\ \A id \in DOMAIN r.T : r.T[id] = T[id]
    /\ r.E = SelectSeq(E, LAMBDA row : row.transaction_id # tid)

\* C21: after delete_transaction(id) the store has no transaction row id and
\* no entry of id, every other transaction and entry is unchanged, and every
\* account of the directory is unchanged; the request adds nothing to the
\* directory but seed accounts that were missing.
C21_DeleteTransactionFrame ==
    \A tid \in TxnIds :
       \E r \in {DeleteResult(accounts, transactions, transaction_entries, tid)} :
          /\ C21_Ledger(transactions, transaction_entries, r, tid)
          /\ \A a \in DOMAIN accounts : a \in DOMAIN r.A /\ r.A[a] = accounts[a]
          /\ DOMAIN r.A \ DOMAIN accounts \subseteq SeedIds

\* C21 as stated: the same, with the account directory unchanged as a whole.
C21_DeleteTransactionLeavesAccounts ==
    \A tid \in TxnIds :
       \E r \in {DeleteResult(accounts, transactions, transaction_entries, tid)} :
          /\ C21_Ledger(transactions, transaction_entries, r, tid)
          /\ r.A = accounts

\* a transaction was deleted through the web page: its row and its entries
\* are gone, and the directory holds an account outside the seed chart
C21_Witness ==
    /\ ret.op = "delete_transaction"
    /\ ret.id \in TxnIds
    /\ ret.id \notin DOMAIN transactions
    /\ \A k \in DOMAIN transaction_entries :
          transaction_entries[k].transaction_id # ret.id
    /\ "6000" \in DOMAIN accounts

\* C22: every stored entry belongs to a stored transaction: its
\* transaction_id is the id of a row of transactions.
C22_NoOrphanEntries ==
    \A k \in DOMAIN transaction_entries :
       transaction_entries[k].transaction_id \in DOMAIN transactions

\* C23: every stored entry has debit_amount >= 0 and credit_amount >= 0.
C23_StoredAmountsNonNegative ==
    \A k \in DOMAIN transaction_entries :
       /\ ~IsNeg(transaction_entries[k].debit_amount)
       /\ ~IsNeg(transaction_entries[k].credit_amount)

\* C24: a create_transaction call that succeeds was made on an id without
\* transaction row; it adds the row of that id with the given date and, after
\* the entries that were there, one entry per input tuple, in input order,
\* with ids <id>_1 .. <id>_n and the given account, debit and credit; every
\* other transaction row and entry is as it was.
C24_CreateTransactionFrame ==
    \A tid \in TxnIds, d \in Dates, es \in SignedEntryLists :
       \E r \in {create_transaction(transactions, transaction_entries, tid, d, es)} :
          r.ok =>
             /\ tid \notin DOMAIN transactions
             /\ DOMAIN r.T = DOMAIN transactions \cup {tid}
             /\ r.T[tid] = [date |-> d]
             /\ \A id \in DOMAIN transactions : r.T[id] = transactions[id]
             /\ Len(r.E) = Len(transaction_entries) + Len(es)
             /\ SubSeq(r.E, 1, Len(transaction_entries)) = transaction_entries
             /\ \A i \in 1 .. Len(es) :
                   LET row == r.E[Len(transaction_entries) + i]
                   IN /\ row.id = <<tid, i>>
                      /\ row.transaction_id = tid
                      /\ C16_Reads(row, es[i][1], es[i][2], es[i][3])

\* a direct call has succeeded with three input tuples: the transaction has
\* the entries _1, _2, _3
C24_Witness ==
    /\ ret.op = "create_transaction"
    /\ ret.val = TRUE
    /\ \E tid \in DOMAIN transactions :
          /\ Len(EntriesOf(transaction_entries, tid)) = 3
          /\ \A i \in 1 .. 3 :
                EntriesOf(transaction_entries, tid)[i].id = <<tid, i>>

\* C25: on every page (limit, offset) of get_transactions_with_bank_balances
\* the rows are in descending (date, id) order, and balances_after of a row
\* is, for each bank account, the debit-minus-credit total of the entries on
\* that account of all transactions at or before the row's transaction in
\* (date, id) order.
C25_BalancesAfterEachRow ==
    \A limit \in Limits, offset \in Offsets :
       LET rows == get_transactions_with_bank_balances(
                      accounts, transactions, transaction_entries, limit, offset)
       IN /\ \A k \in 1 .. (Len(rows) - 1) :
                TxnBefore(transactions, rows[k + 1].id, rows[k].id)
          /\ \A k \in DOMAIN rows : \A acc \in DOMAIN rows[k].balances_after :
                rows[k].balances_after[acc]
                   = NetOf(SelectSeq(transaction_entries, LAMBDA r :
                        /\ r.account_id = acc
                        /\ r.transaction_id \in DOMAIN transactions
                        /\ ~TxnBefore(transactions, rows[k].id, r.transaction_id)))

\* the sum of the effects of rows 1 .. k of a history, by the account type
RECURSIVE C26_SumEffects(_, _, _)
C26_SumEffects(rows, k, account_type) ==
    IF k = 0 THEN Zero
    ELSE Plus(C26_SumEffects(rows, k - 1, account_type),
              IF account_type \in {"ASSET", "EXPENSE"}
              THEN Minus(rows[k].debit, rows[k].credit)
              ELSE Minus(rows[k].credit, rows[k].debit))

\* what C26 says of the rows: they are the first entries on the account (as
\* many as the limit allows), in ascending (date, id) order, and the running
\* balance of row k is the sum of the effects of rows 1 .. k
C26_Rows(a, limit, rows) ==
    LET on_a == SelectSeq(transaction_entries, LAMBDA r :
                   r.account_id = a /\ r.transaction_id \in DOMAIN transactions)
    IN /\ Len(rows) = IF Len(on_a) < limit THEN Len(on_a) ELSE limit
       /\ \A k \in 1 .. (Len(rows) - 1) :
             ~TxnBefore(transactions, rows[k + 1].id, rows[k].id)
       /\ \A k \in DOMAIN rows :
             rows[k].running_balance
                = C26_SumEffects(rows, k, accounts[a].account_type)

\* C26: get_account_transaction_history(A, limit) returns the entries on A
\* in ascending (date, id) order with the running balance accumulated from
\* zero by the account's polarity, and when A has at most limit entries the
\* last running balance is get_account_balance(A).
C26_HistoryEndsAtBalance ==
    \A a \in DOMAIN accounts, limit \in Limits :
       LET rows == get_account_transaction_history(
                      accounts, transactions, transaction_entries, a, limit)
       IN /\ C26_Rows(a, limit, rows)
          /\ Len(SelectSeq(transaction_entries, LAMBDA r : r.account_id = a)) <= limit
                => get_account_balance(accounts, transactions,
                                       transaction_entries, a, NoDate)
                      = IF rows = <<>> THEN Zero
                        ELSE rows[Len(rows)].running_balance

C28_List(list, account_type, sign, start_date, end_date) ==
    /\ \A a \in DOMAIN accounts :
          accounts[a].account_type = account_type =>
             LET net == NetOf(WindowRows(transactions, transaction_entries, a,
                                         start_date, end_date))
                 amount == IF sign = 1 THEN net ELSE Neg(net)
             IN IF amount = Zero
                THEN \A k \in DOMAIN list : list[k][1] # a
                ELSE /\ \E k \in DOMAIN list : list[k][1] = a /\ list[k][3] = amount
                     /\ \A j, k \in DOMAIN list :
                           (list[j][1] = a /\ list[k][1] = a) => j = k
    /\ \A k \in DOMAIN list :
          /\ list[k][1] \in DOMAIN accounts
          /\ accounts[list[k][1]].account_type = account_type

\* C28: generate_income_statement(start, end) lists each REVENUE account with
\* the sum of credit - debit and each EXPENSE account with the sum of debit -
\* credit over the entries whose transaction is dated in [start, end], leaves
\* out the accounts whose net is zero, and its totals are the sums of the
\* listed amounts, net_income = total_revenue - total_expenses.
C28_IncomeStatementSums ==
    \A start_date \in Dates, end_date \in Dates :
       start_date <= end_date =>
          LET st == generate_income_statement(accounts, transactions,
                       transaction_entries, start_date, end_date)
          IN /\ C28_List(st.revenues, "REVENUE", 0 - 1, start_date, end_date)
             /\ C28_List(st.expenses, "EXPENSE", 1, start_date, end_date)
             /\ st.total_revenue = SumAmounts(st.revenues)
             /\ st.total_expenses = SumAmounts(st.expenses)
             /\ st.net_income = Minus(st.total_revenue, st.total_expenses)

\* the leg re-derived from a signed amount s: a credit of s when s > 0, a
\* debit of -s when s < 0
C29_Rederive(s) ==
    IF IsPos(s) THEN [debit |-> Zero, credit |-> s]
    ELSE [debit |-> Neg(s), credit |-> Zero]

\* what block k of an export says against the entry it was written from
C29_Block(x, rows, k, roundtrip(_, _, _)) ==
    LET debit == DecimalOfStr(rows[k].debit_amount)
        credit == DecimalOfStr(rows[k].credit_amount)
        s == x.stmttrn[k].TRNAMT
    IN /\ x.stmttrn[k].FITID = rows[k].transaction_id
       /\ s = Minus(credit, debit)
       /\ s # Zero => roundtrip(s, debit, credit)

C29_Exports(roundtrip(_, _, _)) ==
    \A a \in DOMAIN accounts, start_date \in Dates, end_date \in Dates :
       LET x == export_to_ofx(accounts, transactions, transaction_entries,
                              a, start_date, end_date)
           rows == ExportRows(transactions, transaction_entries,
                              a, start_date, end_date)
       IN /\ x.ok
          /\ Len(x.stmttrn) = Len(rows)
          /\ \A k \in DOMAIN rows : C29_Block(x, rows, k, roundtrip)

\* C29 as amended: every exported entry is written with the external id of
\* its transaction and the signed amount s = credit - debit, and the leg
\* re-derived from the sign of s is the entry's original debit and credit
\* exactly when the entry has one amount zero and the other positive.
C29_ExportRoundTripOneSided ==
    C29_Exports(LAMBDA s, debit, credit :
       (C29_Rederive(s) = [debit |-> debit, credit |-> credit])
          <=> /\ (debit = Zero \/ credit = Zero)
              /\ ~IsNeg(debit) /\ ~IsNeg(credit))

\* C29 as stated: the re-derived leg is the original debit and credit of
\* every exported entry.
C29_ExportRoundTrip ==
    C29_Exports(LAMBDA s, debit, credit :
       C29_Rederive(s) = [debit |-> debit, credit |-> credit])

\* an export has written a one-sided entry, which the sign gives back, next
\* to an entry with both amounts, which it does not
C29_Witness ==
    /\ ret.op = "export_to_ofx"
    /\ ret.val.ok
    /\ LET rows == ExportRows(transactions, transaction_entries,
                              ret.msg[1], ret.msg[2], ret.msg[3])
       IN /\ \E k \in DOMAIN rows :
                /\ rows[k].debit_amount # Zero
                /\ rows[k].credit_amount = Zero
                /\ C29_Rederive(ret.val.stmttrn[k].TRNAMT)
                      = [debit |-> DecimalOfStr(rows[k].debit_amount),
                         credit |-> Zero]
          /\ \E k \in DOMAIN rows :
                /\ rows[k].debit_amount # Zero
                /\ rows[k].credit_amount # Zero
                /\ C29_Rederive(ret.val.stmttrn[k].TRNAMT).credit = Zero

\* the ids OFX_<fitid> of the records of doc that strptime and Decimal accept
C30_Ids(doc) ==
    {<<"OFX", 0, doc.records[k].fitid>> :
        k \in {j \in DOMAIN doc.records : /\ doc.records[j].date # BadText
                                          /\ doc.records[j].amount # BadText}}

=============================================================================
